---------------------------- MODULE Spec2Model ----------------------------
(***************************************************************************)
(* Model of the evaluation engine of calamari_ocr                          *)
(* (src/calamari_ocr/ocr/evaluator.py): Evaluator.evaluate checks the two   *)
(* input lists, maps Evaluator.evaluate_single over the zipped pairs with   *)
(* parallel_map on `processes` workers and folds the records with           *)
(* Evaluator.evaluate_single_list.                                          *)
(*                                                                         *)
(* A text is a sequence of one-character strings.  A confusion dictionary   *)
(* is a function from keys <<gt_str, pred_str>> to counts whose domain is   *)
(* the set of keys present.  avg_ler, a quotient, is kept as the pair of    *)
(* its numerator and denominator.                                           *)
(***************************************************************************)
EXTENDS Integers, Sequences, FiniteSets

VARIABLES
    gt_data,          \* argument gt_data of Evaluator.evaluate
    pred_data,        \* argument pred_data
    skip_empty_gt,    \* argument skip_empty_gt
    processes,        \* argument processes
    pc,               \* position in Evaluator.evaluate
    next_task,        \* index of the next argument parallel_map hands out
    running,          \* indices of the arguments being evaluated by a worker
    out,              \* the list parallel_map returns, by index
    finished,         \* indices in the order the workers completed them
    aligner_calls,    \* <<index, callee>> for each call a worker made
    attempts,         \* how many times each argument was handed to a worker
    failed,           \* indices of the arguments whose evaluation raised
    fold_i,           \* loop position of evaluate_single_list
    all_eval,         \* locals of evaluate_single_list
    total_instances,
    total_chars,
    total_char_errs,
    total_sync_errs,
    confusion,
    result,           \* the dictionary returned, or NoResult
    error,            \* the exception raised, or "none"
    printed,          \* rows of the table of confusions main printed
    total_percent     \* local of main, or NoResult while unassigned

vars == <<gt_data, pred_data, skip_empty_gt, processes, pc, next_task, running,
          out, finished, aligner_calls, attempts, failed, fold_i, all_eval,
          total_instances, total_chars, total_char_errs, total_sync_errs, confusion,
          result, error, printed, total_percent>>

(* Bounds of the model *)
MaxLen == 3
MaxPairs == 2
MaxProcesses == 2

Alphabet == {"a", "b"}

NoResult == [none |-> TRUE]

(* A value that is not a text (Python's None): len() of it raises TypeError. *)
(* No text holds a string of four characters.                                *)
None == <<"None">>

Min(x, y) == IF x <= y THEN x ELSE y

(* Mutants of Max: the smaller of the two, and the first of the two *)
MaxAsMin(x, y) == IF x <= y THEN x ELSE y
MaxAsFirst(x, y) == x

Max(x, y) == IF x >= y THEN x ELSE y

(* All texts over Alphabet of length at most n *)
Texts(n) == UNION {[1..k -> Alphabet] : k \in 0..n}

(* All sequences over S of length at most n *)
SeqsUpTo(S, n) == UNION {[1..k -> S] : k \in 0..n}

EmptyDict == <<>>

---------------------------------------------------------------------------
(* edit_distance(gt, pred)[0]: the Levenshtein distance, by rows of the     *)
(* dynamic-programming table.                                                *)
RECURSIVE EditRow(_, _, _)
EditRow(a, b, i) ==
    IF i = 0 THEN [j \in 0..Len(b) |-> j]
    ELSE LET prev == EditRow(a, b, i - 1)
             cur[j \in 0..Len(b)] ==
                 IF j = 0 THEN i
                 ELSE Min(Min(prev[j] + 1, cur[j - 1] + 1),
                          prev[j - 1] + (IF a[i] = b[j] THEN 0 ELSE 1))
         IN  cur

edit_distance(a, b) == EditRow(a, b, Len(a))[Len(b)]

(* Number of equal characters of a from s1 and b from s2 on *)
RECURSIVE CommonLen(_, _, _, _)
CommonLen(a, b, s1, s2) ==
    IF s1 > Len(a) \/ s2 > Len(b) \/ a[s1] # b[s2] THEN 0
    ELSE 1 + CommonLen(a, b, s1 + 1, s2 + 1)

(* The longest match found from start <<s1, s2>> on, best being the longest *)
(* before it: starts are tried in the order of s1, then of s2, and a later  *)
(* start replaces best only when its match is longer.                       *)
RECURSIVE ScanMatches(_, _, _, _, _)
ScanMatches(a, b, s1, s2, best) ==
    IF s1 > Len(a) THEN best
    ELSE IF s2 > Len(b) THEN ScanMatches(a, b, s1 + 1, 1, best)
    ELSE LET n == CommonLen(a, b, s1, s2)
         IN  IF n > best.length
             THEN ScanMatches(a, b, s1, s2 + 1, [length |-> n, s1 |-> s1, s2 |-> s2])
             ELSE ScanMatches(a, b, s1, s2 + 1, best)

(* The longest common substring of a and b, the first one in the order of   *)
(* its start in a, then in b; length 0 when they share no character.        *)
longest_match(a, b) == ScanMatches(a, b, 1, 1, [length |-> 0, s1 |-> 1, s2 |-> 1])

(* Mutant of synchronize: what follows the longest match is left out *)
RECURSIVE synchronize_drops_right(_, _)
synchronize_drops_right(a, b) ==
    IF Len(a) = 0 /\ Len(b) = 0 THEN <<>>
    ELSE IF Len(a) = 0 \/ Len(b) = 0 THEN << <<a, b>> >>
    ELSE LET m == longest_match(a, b)
         IN  IF m.length = 0 THEN << <<a, b>> >>
             ELSE synchronize_drops_right(SubSeq(a, 1, m.s1 - 1), SubSeq(b, 1, m.s2 - 1))
                  \o << <<SubSeq(a, m.s1, m.s1 + m.length - 1),
                          SubSeq(b, m.s2, m.s2 + m.length - 1)>> >>

(* synchronize([gt, pred]), as the texts get_text() gives for each block:   *)
(* the longest match splits both texts, and what is left and right of it    *)
(* is synchronized in turn; a side pair with one empty text, or with no     *)
(* common character, is one block; a pair of empty texts is no block.       *)
RECURSIVE synchronize(_, _)
synchronize(a, b) ==
    IF Len(a) = 0 /\ Len(b) = 0 THEN <<>>
    ELSE IF Len(a) = 0 \/ Len(b) = 0 THEN << <<a, b>> >>
    ELSE LET m == longest_match(a, b)
         IN  IF m.length = 0 THEN << <<a, b>> >>
             ELSE synchronize(SubSeq(a, 1, m.s1 - 1), SubSeq(b, 1, m.s2 - 1))
                  \o << <<SubSeq(a, m.s1, m.s1 + m.length - 1),
                          SubSeq(b, m.s2, m.s2 + m.length - 1)>> >>
                  \o synchronize(SubSeq(a, m.s1 + m.length, Len(a)),
                                 SubSeq(b, m.s2 + m.length, Len(b)))

---------------------------------------------------------------------------
(* The dictionary conf with key bound to value *)
SetItem(conf, key, value) ==
    [k \in DOMAIN conf \cup {key} |-> IF k = key THEN value ELSE conf[k]]

(* Mutant of CountConfusion: a new key starts at 0 *)
CountConfusionFromZero(conf, key) ==
    IF key \notin DOMAIN conf THEN SetItem(conf, key, 0)
    ELSE SetItem(conf, key, conf[key] + 1)

(* evaluate_single counting a block: confusion[key] = 1 for a new key,      *)
(* confusion[key] += 1 otherwise.                                           *)
CountConfusion(conf, key) ==
    IF key \notin DOMAIN conf THEN SetItem(conf, key, 1)
    ELSE SetItem(conf, key, conf[key] + 1)

(* Mutant of SyncLoop: every block is counted, matched or not *)
RECURSIVE SyncLoopNoTest(_, _, _)
SyncLoopNoTest(synclist, k, acc) ==
    IF k > Len(synclist) THEN acc
    ELSE LET gt_str == synclist[k][1]
             pred_str == synclist[k][2]
         IN  SyncLoopNoTest(synclist, k + 1,
                 [total_sync_errs |-> acc.total_sync_errs + Max(Len(gt_str), Len(pred_str)),
                  confusion |-> CountConfusion(acc.confusion, <<gt_str, pred_str>>)])

(* Mutant of SyncLoop: the comparison of the two texts is inverted *)
RECURSIVE SyncLoopInverted(_, _, _)
SyncLoopInverted(synclist, k, acc) ==
    IF k > Len(synclist) THEN acc
    ELSE LET gt_str == synclist[k][1]
             pred_str == synclist[k][2]
         IN  IF gt_str = pred_str
             THEN SyncLoopInverted(synclist, k + 1,
                      [total_sync_errs |-> acc.total_sync_errs + Max(Len(gt_str), Len(pred_str)),
                       confusion |-> CountConfusion(acc.confusion, <<gt_str, pred_str>>)])
             ELSE SyncLoopInverted(synclist, k + 1, acc)

(* The for loop of evaluate_single over the blocks from position k on *)
RECURSIVE SyncLoop(_, _, _)
SyncLoop(synclist, k, acc) ==
    IF k > Len(synclist) THEN acc
    ELSE LET gt_str == synclist[k][1]
             pred_str == synclist[k][2]
         IN  IF gt_str # pred_str
             THEN SyncLoop(synclist, k + 1,
                      [total_sync_errs |-> acc.total_sync_errs + Max(Len(gt_str), Len(pred_str)),
                       confusion |-> CountConfusion(acc.confusion, <<gt_str, pred_str>>)])
             ELSE SyncLoop(synclist, k + 1, acc)

(* Mutant of evaluate_single: skip_empty_gt is ignored, an empty ground     *)
(* truth is aligned like any other.                                         *)
evaluate_single_never_skips(gt, pred, skip) ==
    IF gt = None THEN [raised |-> "TypeError", calls |-> {}]
    ELSE IF pred = None THEN [raised |-> "TypeError", calls |-> {"edit_distance"}]
    ELSE LET errs == edit_distance(gt, pred)
             synclist == synchronize(gt, pred)
             acc == SyncLoop(synclist, 1, [total_sync_errs |-> 0, confusion |-> EmptyDict])
         IN  [ret |-> [chars |-> Len(gt), char_errs |-> errs,
                       sync_errs |-> acc.total_sync_errs,
                       conf |-> acc.confusion, gt_pred |-> <<gt, pred>>],
              calls |-> {"edit_distance", "synchronize"}]

(* Mutant of evaluate_single: an empty ground truth is skipped whatever     *)
(* skip_empty_gt says.                                                      *)
evaluate_single_always_skips(gt, pred, skip) ==
    IF gt = None THEN [raised |-> "TypeError", calls |-> {}]
    ELSE IF Len(gt) = 0
    THEN [ret |-> [chars |-> 0, char_errs |-> 0, sync_errs |-> 0,
                   conf |-> EmptyDict, gt_pred |-> <<gt, pred>>],
          calls |-> {}]
    ELSE IF pred = None THEN [raised |-> "TypeError", calls |-> {"edit_distance"}]
    ELSE LET errs == edit_distance(gt, pred)
             synclist == synchronize(gt, pred)
             acc == SyncLoop(synclist, 1, [total_sync_errs |-> 0, confusion |-> EmptyDict])
         IN  [ret |-> [chars |-> Len(gt), char_errs |-> errs,
                       sync_errs |-> acc.total_sync_errs,
                       conf |-> acc.confusion, gt_pred |-> <<gt, pred>>],
              calls |-> {"edit_distance", "synchronize"}]

(* Evaluator.evaluate_single: ret is the tuple returned, calls the callees  *)
(* it invoked.  len(gt) of a gt that is not a text raises; a prediction     *)
(* that is not a text raises in edit_distance, when the pair is not         *)
(* skipped before.                                                          *)
evaluate_single(gt, pred, skip) ==
    IF gt = None THEN [raised |-> "TypeError", calls |-> {}]
    ELSE IF Len(gt) = 0 /\ skip
    THEN [ret |-> [chars |-> 0, char_errs |-> 0, sync_errs |-> 0,
                   conf |-> EmptyDict, gt_pred |-> <<gt, pred>>],
          calls |-> {}]
    ELSE IF pred = None THEN [raised |-> "TypeError", calls |-> {"edit_distance"}]
    ELSE LET errs == edit_distance(gt, pred)
             synclist == synchronize(gt, pred)
             acc == SyncLoop(synclist, 1, [total_sync_errs |-> 0, confusion |-> EmptyDict])
         IN  [ret |-> [chars |-> Len(gt), char_errs |-> errs,
                       sync_errs |-> acc.total_sync_errs,
                       conf |-> acc.confusion, gt_pred |-> <<gt, pred>>],
              calls |-> {"edit_distance", "synchronize"}]

---------------------------------------------------------------------------
(* Mutant of AddConfusion: the count of a key already present is replaced  *)
(* instead of added to.                                                     *)
AddConfusionOverwrites(conf, key, value) == SetItem(conf, key, value)

(* evaluate_single_list merging one item of a record's dictionary:         *)
(* confusion[key] = value for a new key, confusion[key] += value otherwise. *)
AddConfusion(conf, key, value) ==
    IF key \notin DOMAIN conf THEN SetItem(conf, key, value)
    ELSE SetItem(conf, key, conf[key] + value)

(* Merging one record's confusion dictionary into the running one: the      *)
(* inner loop of evaluate_single_list over conf.items().                    *)
RECURSIVE MergeConfusion(_, _, _)
MergeConfusion(into, conf, keys) ==
    IF keys = {} THEN into
    ELSE LET key == CHOOSE k \in keys : TRUE
         IN  MergeConfusion(AddConfusion(into, key, conf[key]), conf, keys \ {key})

(* The locals of evaluate_single_list before its loop *)
ZeroTotals ==
    [all_eval |-> <<>>, total_instances |-> 0, total_chars |-> 0,
     total_char_errs |-> 0, total_sync_errs |-> 0, confusion |-> EmptyDict]

(* Mutant of FoldRecord: the totals are assigned, not added to *)
FoldRecordAssigns(t, rec, store_all) ==
    [all_eval |-> IF store_all THEN Append(t.all_eval, rec) ELSE t.all_eval,
     total_instances |-> t.total_instances + 1,
     total_chars |-> rec.chars,
     total_char_errs |-> rec.char_errs,
     total_sync_errs |-> rec.sync_errs,
     confusion |-> MergeConfusion(t.confusion, rec.conf, DOMAIN rec.conf)]

(* Mutant of FoldRecord: the record is kept when store_all is false *)
FoldRecordStoresInverted(t, rec, store_all) ==
    [all_eval |-> IF ~store_all THEN Append(t.all_eval, rec) ELSE t.all_eval,
     total_instances |-> t.total_instances + 1,
     total_chars |-> t.total_chars + rec.chars,
     total_char_errs |-> t.total_char_errs + rec.char_errs,
     total_sync_errs |-> t.total_sync_errs + rec.sync_errs,
     confusion |-> MergeConfusion(t.confusion, rec.conf, DOMAIN rec.conf)]

(* Mutant of FoldRecord: a record without characters is not an instance *)
FoldRecordSkipsEmpty(t, rec, store_all) ==
    [all_eval |-> IF store_all THEN Append(t.all_eval, rec) ELSE t.all_eval,
     total_instances |-> IF rec.chars = 0 THEN t.total_instances ELSE t.total_instances + 1,
     total_chars |-> t.total_chars + rec.chars,
     total_char_errs |-> t.total_char_errs + rec.char_errs,
     total_sync_errs |-> t.total_sync_errs + rec.sync_errs,
     confusion |-> MergeConfusion(t.confusion, rec.conf, DOMAIN rec.conf)]

(* One iteration of the loop of evaluate_single_list *)
FoldRecord(t, rec, store_all) ==
    [all_eval |-> IF store_all THEN Append(t.all_eval, rec) ELSE t.all_eval,
     total_instances |-> t.total_instances + 1,
     total_chars |-> t.total_chars + rec.chars,
     total_char_errs |-> t.total_char_errs + rec.char_errs,
     total_sync_errs |-> t.total_sync_errs + rec.sync_errs,
     confusion |-> MergeConfusion(t.confusion, rec.conf, DOMAIN rec.conf)]

(* The loop of evaluate_single_list over eval_results from position k on *)
RECURSIVE FoldFrom(_, _, _, _)
FoldFrom(t, eval_results, k, store_all) ==
    IF k > Len(eval_results) THEN t
    ELSE FoldFrom(FoldRecord(t, eval_results[k], store_all), eval_results, k + 1, store_all)

(* Mutant of DivisionRaises: the quotient never raises *)
DivisionNeverRaises(chars) == FALSE

(* Whether the quotient total_char_errs / total_chars raises *)
DivisionRaises(chars) == chars = 0

(* The return statement of evaluate_single_list: the dictionary, or the     *)
(* exception the division raises.                                           *)
ReturnDict(t) ==
    IF DivisionRaises(t.total_chars)
    THEN [raised |-> "ZeroDivisionError"]
    ELSE [single |-> t.all_eval,
          total_instances |-> t.total_instances,
          avg_ler |-> <<t.total_char_errs, t.total_chars>>,
          total_chars |-> t.total_chars,
          total_char_errs |-> t.total_char_errs,
          total_sync_errs |-> t.total_sync_errs,
          confusion |-> t.confusion]

(* Evaluator.evaluate_single_list as a whole *)
evaluate_single_list(eval_results, store_all) ==
    ReturnDict(FoldFrom(ZeroTotals, eval_results, 1, store_all))

---------------------------------------------------------------------------
(***************************************************************************)
(* scripts/eval.py: the table of confusions.  percent and total_percent    *)
(* are Python floats, binary64 numbers: a positive one is                  *)
(* [e, m] with m the 53 bits of its significand, first bit 1, and value    *)
(* m[1].m[2]...m[53] * 2^e.  True division of two ints and the sum of two  *)
(* floats round the exact result to the nearest such number, ties to the   *)
(* even significand.                                                       *)
(***************************************************************************)
SignificandBits == 1..53

Zeros(n) == [k \in 1..n |-> 0]

(* The float 0.0 *)
FloatZero == [e |-> 0, m |-> Zeros(Cardinality(SignificandBits))]

(* The float 1.0 *)
FloatOne == [e |-> 0, m |-> <<1>> \o Zeros(Cardinality(SignificandBits) - 1)]

(* bits + 1, for bits that are not all 1, from position k down *)
RECURSIVE Increment(_, _)
Increment(bits, k) ==
    IF bits[k] = 0 THEN [bits EXCEPT ![k] = 1]
    ELSE Increment([bits EXCEPT ![k] = 0], k - 1)

(* Mutant of RoundToNearestEven: the bits beyond the significand are dropped *)
RoundTowardZero(e, bits, sticky) ==
    [e |-> e, m |-> SubSeq(bits, 1, Cardinality(SignificandBits))]

(* The float nearest to bits[1].bits[2]... * 2^e (+ something below the    *)
(* last bit when sticky), bits[1] = 1; ties go to the even significand.    *)
RoundToNearestEven(e, bits, sticky) ==
    LET p == Cardinality(SignificandBits)
        keep == SubSeq(bits, 1, p)
        guard == Len(bits) > p /\ bits[p + 1] = 1
        rest == sticky \/ \E k \in (p + 2)..Len(bits) : bits[k] = 1
        up == guard /\ (rest \/ keep[p] = 1)
    IN  IF ~up THEN [e |-> e, m |-> keep]
        ELSE IF \A k \in 1..p : keep[k] = 1 THEN [e |-> e + 1, m |-> <<1>> \o Zeros(p - 1)]
        ELSE [e |-> e, m |-> Increment(keep, p)]

(* The exponent of a / b: the e with 2^e <= a / b < 2^(e+1) *)
RECURSIVE QuotientExponent(_, _)
QuotientExponent(a, b) ==
    IF a >= 2 * b THEN QuotientExponent(a, 2 * b) + 1
    ELSE IF a < b THEN QuotientExponent(2 * a, b) - 1
    ELSE 0

RECURSIVE Pow2(_)
Pow2(n) == IF n = 0 THEN 1 ELSE 2 * Pow2(n - 1)

(* n more bits of the long division of rem / den, rem < den *)
RECURSIVE QuotientBits(_, _, _, _)
QuotientBits(bits, rem, den, n) ==
    IF n = 0 THEN [bits |-> bits, rem |-> rem]
    ELSE IF 2 * rem >= den THEN QuotientBits(Append(bits, 1), 2 * rem - den, den, n - 1)
    ELSE QuotientBits(Append(bits, 0), 2 * rem, den, n - 1)

(* a / b for ints a, b > 0 *)
FloatDiv(a, b) ==
    LET e == QuotientExponent(a, b)
        num == IF e < 0 THEN a * Pow2(0 - e) ELSE a
        den == IF e > 0 THEN b * Pow2(e) ELSE b
        q == QuotientBits(<<1>>, num - den, den, Cardinality(SignificandBits))
    IN  RoundToNearestEven(e, q.bits, q.rem # 0)

(* The sum of two bit strings of one length, from position k down, with    *)
(* the carry out as its first bit.                                         *)
RECURSIVE SumBits(_, _, _, _, _)
SumBits(a, b, k, carry, acc) ==
    IF k = 0 THEN <<carry>> \o acc
    ELSE LET s == a[k] + b[k] + carry
         IN  SumBits(a, b, k - 1, s \div 2, <<s % 2>> \o acc)

(* x + y for floats x, y >= 0 *)
FloatAdd(x, y) ==
    IF x = FloatZero THEN y ELSE IF y = FloatZero THEN x ELSE
    LET hi == IF x.e >= y.e THEN x ELSE y
        lo == IF x.e >= y.e THEN y ELSE x
        d == hi.e - lo.e
        a == hi.m \o Zeros(d)
        b == Zeros(d) \o lo.m
        s == SumBits(a, b, Len(a), 0, <<>>)
    IN  IF s[1] = 1 THEN RoundToNearestEven(hi.e + 1, s, FALSE)
        ELSE RoundToNearestEven(hi.e, Tail(s), FALSE)

(* The keys of a record's confusion in the order evaluate_single inserted   *)
(* them: the mismatched blocks of the synchronization, in order.            *)
BlockKeys(rec) ==
    IF rec.conf = EmptyDict THEN <<>>
    ELSE LET Differ(block) == block[1] # block[2]
         IN  SelectSeq(synchronize(rec.gt_pred[1], rec.gt_pred[2]), Differ)

(* order, followed by the keys of ks it does not hold yet *)
RECURSIVE AppendNew(_, _, _)
AppendNew(order, ks, k) ==
    IF k > Len(ks) THEN order
    ELSE IF \E j \in DOMAIN order : order[j] = ks[k] THEN AppendNew(order, ks, k + 1)
    ELSE AppendNew(Append(order, ks[k]), ks, k + 1)

(* The keys of the folded confusion in the order of the dict: a dict keeps  *)
(* its keys in the order of their first insertion.                          *)
RECURSIVE DictOrder(_, _, _)
DictOrder(single, k, order) ==
    IF k > Len(single) THEN order
    ELSE DictOrder(single, k + 1, AppendNew(order, BlockKeys(single[k]), 1))

(* sorted(items, key=lambda item: -item[1]): by descending count, keys of   *)
(* one count staying in their order.                                        *)
RECURSIVE SortedByCount(_, _, _, _)
SortedByCount(conf, order, k, acc) ==
    IF k > Len(order) THEN acc
    ELSE LET ahead == Cardinality({j \in DOMAIN acc : conf[acc[j]] >= conf[order[k]]})
         IN  SortedByCount(conf, order, k + 1,
                           SubSeq(acc, 1, ahead) \o <<order[k]>> \o SubSeq(acc, ahead + 1, Len(acc)))

(* Values of --n_confusions: all rows, no table, one row, the default *)
NConfusions == {-1, 0, 1, 10}

(* The rows the loop prints: it breaks at i == n_confusions *)
PrintedRows(keys, n_confusions) ==
    IF n_confusions >= 0 /\ n_confusions < Len(keys) THEN n_confusions ELSE Len(keys)

(* Mutant of PercentNumerator: the length of the ground truth text only *)
PercentNumeratorGtOnly(key, count) == count * Len(key[1])

(* count * max(len(gt), len(pred)), the numerator of percent *)
PercentNumerator(key, count) == count * Max(Len(key[1]), Len(key[2]))

(* total_percent after the first rows rows of keys *)
RECURSIVE SumPercent(_, _, _, _, _)
SumPercent(r, keys, i, rows, total) ==
    IF i > rows THEN total
    ELSE LET percent == FloatDiv(PercentNumerator(keys[i], r.confusion[keys[i]]),
                                 r.total_sync_errs)
         IN  SumPercent(r, keys, i + 1, rows, FloatAdd(total, percent))

(* The table of confusions of main: the rows printed and total_percent, or *)
(* nothing when the table is not printed.                                   *)
ConfusionTable(r, n_confusions) ==
    IF n_confusions # 0 /\ r.total_sync_errs > 0
    THEN LET keys == SortedByCount(r.confusion, DictOrder(r.single, 1, <<>>), 1, <<>>)
             rows == PrintedRows(keys, n_confusions)
         IN  [printed |-> rows, total_percent |-> SumPercent(r, keys, 1, rows, FloatZero)]
    ELSE [printed |-> 0, total_percent |-> NoResult]

(* Mutant of CountMismatch: only a longer gt_data is refused *)
CountMismatchOneSided(gt, pred) == Len(gt) > Len(pred)

(* The test that opens Evaluator.evaluate *)
CountMismatch(gt, pred) == Len(gt) # Len(pred)

(* The argument list built for parallel_map: zip stops at the shorter list *)
Args(gt, pred, skip) ==
    [i \in 1..Min(Len(gt), Len(pred)) |->
        [gt |-> gt[i], pred |-> pred[i], skip_empty_gt |-> skip]]

(* Mutant of CollectResult: the values are kept in the order the workers   *)
(* completed them.                                                          *)
CollectInCompletionOrder(o, i, rec, done) == [o EXCEPT ![Len(done) + 1] = rec]

(* Where parallel_map puts the value computed for argument i: the list it   *)
(* returns is in the order of the arguments.                                *)
CollectResult(o, i, rec, done) == [o EXCEPT ![i] = rec]

(* Mutant of OnWorkerError: the exception is swallowed and evaluate returns *)
OnWorkerErrorSwallowed(e) == [pc |-> "done", error |-> "none"]

(* An exception raised by parallel_map: Evaluator.evaluate has no handler,  *)
(* so the exception leaves it.                                              *)
OnWorkerError(e) == [pc |-> "raised", error |-> e]

Totals ==
    [all_eval |-> all_eval, total_instances |-> total_instances,
     total_chars |-> total_chars, total_char_errs |-> total_char_errs,
     total_sync_errs |-> total_sync_errs, confusion |-> confusion]

NumTasks == Len(Args(gt_data, pred_data, skip_empty_gt))

---------------------------------------------------------------------------
(* The inputs explored.  Corpora of one pair range over all texts up to     *)
(* MaxLen; longer corpora are built from a pool of pairs: an empty ground   *)
(* truth, two empty texts, a correct line, a substitution, a deletion and   *)
(* a line with the same confusion twice.                                    *)
PairPool ==
    { << <<>>, <<"a">> >>,
      << <<>>, <<>> >>,
      << <<"a">>, <<"a">> >>,
      << <<"a">>, <<"b">> >>,
      << <<"a", "b">>, <<"b">> >>,
      << <<"a", "b", "a">>, <<"b">> >> }

(* A ground truth that is not a text and a prediction that is not a text *)
NonTextPairs ==
    { << None, <<"a">> >>,
      << <<>>, None >> }

(* The corpora of one or two pairs with a pair that is not of two texts *)
NonTextCorpora ==
    {c \in [1..1 -> NonTextPairs] \cup [1..2 -> PairPool \cup NonTextPairs] :
        \E i \in DOMAIN c : c[i] \in NonTextPairs}

(* The pairs worked out in the comment of evaluate_single_list and in the   *)
(* scenarios of the specification.                                          *)
Cat == <<"c", "a", "t">>
Dog == <<"d", "o", "g">>
Hello == <<"h", "e", "l", "l", "o">>
Helo == <<"h", "e", "l", "o">>
InEwych == <<"i", "n", " ", "e", "w", "y", "c", "h">>
IergCh == <<"i", "e", "r", "g", " ", "c", "h">>

ExampleCorpora ==
    { << <<Cat, Dog>> >>,
      << <<Hello, Helo>> >>,
      << <<InEwych, IergCh>> >>,
      << << <<"a", "b">>, <<"a", "b">> >>, << <<>>, <<"x">> >> >>,
      << << <<"a", "a", "a">>, <<"b", "b", "b">> >>,
         << <<"a", "a">>, <<"b", "b">> >>,
         << <<"a">>, <<"b">> >> >> }

Corpora ==
    {<< p >> : p \in Texts(MaxLen) \X Texts(MaxLen)} \cup SeqsUpTo(PairPool, MaxPairs)
        \cup NonTextCorpora \cup ExampleCorpora

(* The list xs without its last n elements *)
DropLast(xs, n) == SubSeq(xs, 1, Len(xs) - Min(n, Len(xs)))

Init ==
    /\ \E corpus \in Corpora, cut \in {<<0, 0>>, <<1, 0>>, <<0, 1>>} :
          /\ gt_data = DropLast([i \in 1..Len(corpus) |-> corpus[i][1]], cut[1])
          /\ pred_data = DropLast([i \in 1..Len(corpus) |-> corpus[i][2]], cut[2])
    /\ skip_empty_gt \in BOOLEAN
    /\ processes \in 1..MaxProcesses
    /\ pc = "evaluate"
    /\ next_task = 1
    /\ running = {}
    /\ out = <<>>
    /\ finished = <<>>
    /\ aligner_calls = {}
    /\ attempts = <<>>
    /\ failed = {}
    /\ fold_i = 0
    /\ all_eval = <<>>
    /\ total_instances = 0
    /\ total_chars = 0
    /\ total_char_errs = 0
    /\ total_sync_errs = 0
    /\ confusion = EmptyDict
    /\ result = NoResult
    /\ error = "none"
    /\ printed = 0
    /\ total_percent = NoResult

(* Evaluator.evaluate raises on lists of different lengths *)
RaiseMismatch ==
    /\ pc = "evaluate"
    /\ CountMismatch(gt_data, pred_data)
    /\ pc' = "raised"
    /\ error' = "Mismatch in gt and pred files count"
    /\ UNCHANGED <<printed, total_percent,
                   gt_data, pred_data, skip_empty_gt, processes, next_task, running,
                   out, finished, aligner_calls, attempts, failed, fold_i, all_eval, total_instances,
                   total_chars, total_char_errs, total_sync_errs, confusion, result>>

(* Evaluator.evaluate enters parallel_map *)
StartMap ==
    /\ pc = "evaluate"
    /\ ~CountMismatch(gt_data, pred_data)
    /\ pc' = "parallel_map"
    /\ out' = [i \in 1..NumTasks |-> NoResult]
    /\ attempts' = [i \in 1..NumTasks |-> 0]
    /\ UNCHANGED <<printed, total_percent,
                   gt_data, pred_data, skip_empty_gt, processes, next_task, running,
                   finished, aligner_calls, failed, fold_i, all_eval, total_instances,
                   total_chars, total_char_errs, total_sync_errs, confusion, result, error>>

(* parallel_map hands the next argument to a free worker *)
Dispatch ==
    /\ pc = "parallel_map"
    /\ next_task <= NumTasks
    /\ Cardinality(running) < processes
    /\ running' = running \cup {next_task}
    /\ next_task' = next_task + 1
    /\ attempts' = [attempts EXCEPT ![next_task] = @ + 1]
    /\ UNCHANGED <<printed, total_percent,
                   gt_data, pred_data, skip_empty_gt, processes, pc, out, finished,
                   aligner_calls, failed, fold_i, all_eval, total_instances, total_chars,
                   total_char_errs, total_sync_errs, confusion, result, error>>

(* A worker finishes evaluate_single_args on argument i *)
Complete(i) ==
    /\ pc = "parallel_map"
    /\ i \in running
    /\ LET arg == Args(gt_data, pred_data, skip_empty_gt)[i]
           r == evaluate_single(arg.gt, arg.pred, arg.skip_empty_gt)
       IN  /\ "ret" \in DOMAIN r
           /\ out' = CollectResult(out, i, r.ret, finished)
           /\ aligner_calls' = aligner_calls \cup {<<i, c>> : c \in r.calls}
    /\ running' = running \ {i}
    /\ finished' = Append(finished, i)
    /\ UNCHANGED <<printed, total_percent,
                   attempts, failed, gt_data, pred_data, skip_empty_gt, processes, pc, next_task,
                   fold_i, all_eval, total_instances, total_chars, total_char_errs,
                   total_sync_errs, confusion, result, error>>

(* evaluate_single_args raises on argument i: parallel_map raises the       *)
(* exception in the caller and its pool is shut down.                       *)
Fail(i) ==
    /\ pc = "parallel_map"
    /\ i \in running
    /\ LET arg == Args(gt_data, pred_data, skip_empty_gt)[i]
           r == evaluate_single(arg.gt, arg.pred, arg.skip_empty_gt)
       IN  /\ "raised" \in DOMAIN r
           /\ aligner_calls' = aligner_calls \cup {<<i, c>> : c \in r.calls}
           /\ pc' = OnWorkerError(r.raised).pc
           /\ error' = OnWorkerError(r.raised).error
    /\ failed' = failed \cup {i}
    /\ running' = {}
    /\ UNCHANGED <<printed, total_percent,
                   gt_data, pred_data, skip_empty_gt, processes, next_task, out,
                   finished, attempts, fold_i, all_eval, total_instances, total_chars,
                   total_char_errs, total_sync_errs, confusion, result>>

(* parallel_map returns once every argument is evaluated; evaluate_single_list *)
(* starts with its locals zeroed.                                              *)
Join ==
    /\ pc = "parallel_map"
    /\ next_task > NumTasks
    /\ running = {}
    /\ pc' = "evaluate_single_list"
    /\ fold_i' = 1
    /\ all_eval' = ZeroTotals.all_eval
    /\ total_instances' = ZeroTotals.total_instances
    /\ total_chars' = ZeroTotals.total_chars
    /\ total_char_errs' = ZeroTotals.total_char_errs
    /\ total_sync_errs' = ZeroTotals.total_sync_errs
    /\ confusion' = ZeroTotals.confusion
    /\ UNCHANGED <<printed, total_percent,
                   gt_data, pred_data, skip_empty_gt, processes, next_task, running,
                   out, finished, aligner_calls, attempts, failed, result, error>>

(* One iteration of the loop of evaluate_single_list(out, True) *)
Fold ==
    /\ pc = "evaluate_single_list"
    /\ fold_i <= Len(out)
    /\ LET t == FoldRecord(Totals, out[fold_i], TRUE)
       IN  /\ all_eval' = t.all_eval
           /\ total_instances' = t.total_instances
           /\ total_chars' = t.total_chars
           /\ total_char_errs' = t.total_char_errs
           /\ total_sync_errs' = t.total_sync_errs
           /\ confusion' = t.confusion
    /\ fold_i' = fold_i + 1
    /\ UNCHANGED <<printed, total_percent,
                   gt_data, pred_data, skip_empty_gt, processes, pc, next_task, running,
                   out, finished, aligner_calls, attempts, failed, result, error>>

(* The return statement of evaluate_single_list, whose value Evaluator.evaluate *)
(* returns: the division computes avg_ler.                                      *)
Return ==
    /\ pc = "evaluate_single_list"
    /\ fold_i > Len(out)
    /\ ReturnDict(Totals) # [raised |-> "ZeroDivisionError"]
    /\ result' = ReturnDict(Totals)
    /\ pc' = "done"
    /\ UNCHANGED <<printed, total_percent,
                   gt_data, pred_data, skip_empty_gt, processes, next_task, running,
                   out, finished, aligner_calls, attempts, failed, fold_i, all_eval, total_instances,
                   total_chars, total_char_errs, total_sync_errs, confusion, error>>

(* The division by total_chars = 0 raises out of Evaluator.evaluate *)
RaiseDivision ==
    /\ pc = "evaluate_single_list"
    /\ fold_i > Len(out)
    /\ ReturnDict(Totals) = [raised |-> "ZeroDivisionError"]
    /\ error' = "ZeroDivisionError"
    /\ pc' = "raised"
    /\ UNCHANGED <<printed, total_percent,
                   gt_data, pred_data, skip_empty_gt, processes, next_task, running,
                   out, finished, aligner_calls, attempts, failed, fold_i, all_eval, total_instances,
                   total_chars, total_char_errs, total_sync_errs, confusion, result>>

(* main of scripts/eval.py prints the table of confusions of the           *)
(* dictionary returned.                                                     *)
PrintConfusions ==
    /\ pc = "done"
    /\ \E n_confusions \in NConfusions :
           LET table == ConfusionTable(result, n_confusions)
           IN  /\ printed' = table.printed
               /\ total_percent' = table.total_percent
    /\ pc' = "printed"
    /\ UNCHANGED <<gt_data, pred_data, skip_empty_gt, processes, next_task, running, out,
                   finished, aligner_calls, attempts, failed, fold_i, all_eval,
                   total_instances, total_chars, total_char_errs, total_sync_errs,
                   confusion, result, error>>

Next ==
    \/ RaiseMismatch
    \/ StartMap
    \/ Dispatch
    \/ \E i \in running : Complete(i)
    \/ \E i \in running : Fail(i)
    \/ Join
    \/ Fold
    \/ Return
    \/ RaiseDivision
    \/ PrintConfusions

Spec == Init /\ [][Next]_vars

---------------------------------------------------------------------------
(* Properties                                                               *)

(* The arguments of the run, and whether argument i has been evaluated *)
TheArgs == Args(gt_data, pred_data, skip_empty_gt)
Evaluated(i) == i \in DOMAIN out /\ out[i] # NoResult
Aligned(i) == <<i, "edit_distance">> \in aligner_calls /\ <<i, "synchronize">> \in aligner_calls

(* The fold has gone through all of out *)
Folded == pc = "done" \/ (pc = "raised" /\ fold_i > 0)
              \/ (pc = "evaluate_single_list" /\ fold_i > Len(out))

(* The five sums of a record of totals *)
Sums(t) ==
    [total_instances |-> t.total_instances, total_chars |-> t.total_chars,
     total_char_errs |-> t.total_char_errs, total_sync_errs |-> t.total_sync_errs,
     confusion |-> t.confusion]

(* What processes = 1 gives: parallel_map is list(map(f, d)), one argument  *)
(* after the other, and the list is folded.                                 *)
SequentialOutcome ==
    LET r == [i \in DOMAIN TheArgs |->
                 evaluate_single(TheArgs[i].gt, TheArgs[i].pred, TheArgs[i].skip_empty_gt)]
    IN  IF \E i \in DOMAIN r : "raised" \in DOMAIN r[i]
        THEN [raised |-> "TypeError"]
        ELSE evaluate_single_list([i \in DOMAIN r |-> r[i].ret], TRUE)

(* C1: whatever the number of processes and the order in which the workers  *)
(* complete, Evaluator.evaluate ends as it does with processes = 1: it      *)
(* returns the same dictionary (totals, confusion, avg_ler, single in the   *)
(* same order), or raises the same error.                                   *)
C1_SameAsSequential ==
    /\ pc = "done" => result = SequentialOutcome
    /\ failed # {} => (pc = "raised" /\ SequentialOutcome = [raised |-> error])
    /\ (pc = "raised" /\ fold_i > 0) =>
           /\ error = "ZeroDivisionError"
           /\ SequentialOutcome = [raised |-> "ZeroDivisionError"]

(* C1 witness: two workers completed two different records out of order *)
C1_Witness ==
    /\ pc = "done"
    /\ processes >= 2
    /\ finished = <<2, 1>>
    /\ out[1] # out[2]
    /\ out[1].conf # out[2].conf

(* C2: with lists of different lengths nothing is dispatched, evaluated or  *)
(* folded, and the run can only end in the count-mismatch error.            *)
C2_MismatchBeforeDispatch ==
    Len(gt_data) # Len(pred_data) =>
        /\ pc \in {"evaluate", "raised"}
        /\ pc = "raised" => error = "Mismatch in gt and pred files count"
        /\ next_task = 1
        /\ running = {}
        /\ finished = <<>>
        /\ aligner_calls = {}
        /\ \A i \in DOMAIN out : out[i] = NoResult
        /\ fold_i = 0
        /\ total_instances = 0
        /\ result = NoResult

(* C2 witness: the mismatch was raised although pairs could have been zipped *)
C2_Witness ==
    /\ pc = "raised"
    /\ error = "Mismatch in gt and pred files count"
    /\ Len(gt_data) = 1
    /\ Len(pred_data) = 2

(* C3: when the folded records sum to total_chars = 0 the run ends in the   *)
(* division error raised to the caller and returns no dictionary; a         *)
(* dictionary returned has total_chars # 0, so avg_ler is a quotient.       *)
C3_EmptyCorpusRaises ==
    /\ (Folded /\ total_chars = 0) =>
           /\ pc # "done"
           /\ result = NoResult
           /\ pc = "raised" => error = "ZeroDivisionError"
           /\ pc = "evaluate_single_list" => (ENABLED RaiseDivision /\ ~ENABLED Return)
    /\ result # NoResult => (result.total_chars # 0 /\ result.avg_ler[2] # 0)

(* C3 witness: every ground truth was empty and skipped, and the division raised *)
C3_Witness ==
    /\ pc = "raised"
    /\ error = "ZeroDivisionError"
    /\ skip_empty_gt
    /\ Len(out) = 2
    /\ total_instances = 2
    /\ \E i \in 1..2 : pred_data[i] # <<>>

(* The records of out before position k whose pair was not skipped *)
RECURSIVE NotSkippedBefore(_)
NotSkippedBefore(k) ==
    IF k <= 1 THEN <<>>
    ELSE IF gt_data[k - 1] = <<>> /\ skip_empty_gt
         THEN NotSkippedBefore(k - 1)
         ELSE Append(NotSkippedBefore(k - 1), out[k - 1])

(* C4: an empty ground truth with skip_empty_gt gives the zero record with  *)
(* the input pair, without a call of edit_distance or synchronize, and the  *)
(* fold's sums and confusion are those of the other records alone.          *)
C4_SkippedIsZero ==
    /\ \A i \in DOMAIN out :
           (Evaluated(i) /\ gt_data[i] = <<>> /\ skip_empty_gt) =>
               /\ out[i] = [chars |-> 0, char_errs |-> 0, sync_errs |-> 0,
                            conf |-> EmptyDict, gt_pred |-> <<gt_data[i], pred_data[i]>>]
               /\ \A c \in {"edit_distance", "synchronize"} : <<i, c>> \notin aligner_calls
    /\ (fold_i >= 1 /\ skip_empty_gt) =>
           LET others == FoldFrom(ZeroTotals, NotSkippedBefore(fold_i), 1, FALSE)
           IN  /\ total_chars = others.total_chars
               /\ total_char_errs = others.total_char_errs
               /\ total_sync_errs = others.total_sync_errs
               /\ confusion = others.confusion

(* C4 witness: a skipped pair with a prediction was folded next to a counted one *)
C4_Witness ==
    /\ pc = "done"
    /\ skip_empty_gt
    /\ \E i \in DOMAIN out : gt_data[i] = <<>> /\ pred_data[i] # <<>> /\ out[i].char_errs = 0
    /\ total_instances = 2
    /\ total_char_errs > 0

(* C5: an empty ground truth without skip_empty_gt is aligned: chars = 0,   *)
(* char_errs = len(prediction), and a prediction that is not empty gives    *)
(* the single block ('', prediction), counted once.                         *)
C5_EmptyGtIsInsertion ==
    \A i \in DOMAIN out :
        (Evaluated(i) /\ gt_data[i] = <<>> /\ ~skip_empty_gt) =>
            /\ Aligned(i)
            /\ out[i].chars = 0
            /\ out[i].char_errs = Len(pred_data[i])
            /\ pred_data[i] # <<>> =>
                   /\ synchronize(gt_data[i], pred_data[i]) = << <<<<>>, pred_data[i]>> >>
                   /\ out[i].sync_errs = Len(pred_data[i])
                   /\ DOMAIN out[i].conf = {<<<<>>, pred_data[i]>>}
                   /\ out[i].conf[<<<<>>, pred_data[i]>>] = 1

(* C5 witness: an empty ground truth was aligned with a prediction of two characters or more *)
C5_Witness ==
    \E i \in DOMAIN out :
        /\ Evaluated(i)
        /\ ~skip_empty_gt
        /\ gt_data[i] = <<>>
        /\ Len(pred_data[i]) >= 2
        /\ out[i].char_errs >= 2

(* The permutations of 1..n *)
Perms(n) == {f \in [1..n -> 1..n] : \A i, j \in 1..n : f[i] = f[j] => i = j}

(* C6: folding the records in any order gives the same total_instances,     *)
(* total_chars, total_char_errs, total_sync_errs and confusion.             *)
C6_FoldOrderIrrelevant ==
    Folded =>
        \A f \in Perms(Len(out)) :
            Sums(FoldFrom(ZeroTotals, [i \in 1..Len(out) |-> out[f[i]]], 1, FALSE)) = Sums(Totals)

(* C6 witness: two records with different sums and a common confusion key were folded *)
C6_Witness ==
    /\ Folded
    /\ Len(out) = 2
    /\ out[1].chars # out[2].chars
    /\ out[1].sync_errs # out[2].sync_errs
    /\ DOMAIN out[1].conf \cap DOMAIN out[2].conf # {}

(* The records of out at the positions in S, in order *)
RECURSIVE Pick(_, _)
Pick(S, k) ==
    IF k = 0 THEN <<>>
    ELSE IF k \in S THEN Append(Pick(S, k - 1), out[k]) ELSE Pick(S, k - 1)

(* Two aggregates merged: sums added, counts added under equal keys *)
MergeAggregates(x, y) ==
    [total_instances |-> x.total_instances + y.total_instances,
     total_chars |-> x.total_chars + y.total_chars,
     total_char_errs |-> x.total_char_errs + y.total_char_errs,
     total_sync_errs |-> x.total_sync_errs + y.total_sync_errs,
     confusion |-> [k \in DOMAIN x.confusion \cup DOMAIN y.confusion |->
                       (IF k \in DOMAIN x.confusion THEN x.confusion[k] ELSE 0)
                       + (IF k \in DOMAIN y.confusion THEN y.confusion[k] ELSE 0)]]

(* C7: for every split of the records into two sub-corpora, the two         *)
(* aggregates merged are the aggregate of the single fold of all records.   *)
C7_SplitAdditive ==
    Folded =>
        \A S \in SUBSET (1..Len(out)) :
            MergeAggregates(Sums(FoldFrom(ZeroTotals, Pick(S, Len(out)), 1, FALSE)),
                            Sums(FoldFrom(ZeroTotals, Pick((1..Len(out)) \ S, Len(out)), 1, FALSE)))
                = Sums(Totals)

(* C7 witness: two records with a common confusion key were folded into one count *)
C7_Witness ==
    /\ pc = "done"
    /\ Len(out) = 2
    /\ \E k \in DOMAIN out[1].conf \cap DOMAIN out[2].conf :
           confusion[k] = out[1].conf[k] + out[2].conf[k]

(* A confusion dictionary holds only keys of two different texts, counted at least once *)
OnlyMismatches(conf) == \A k \in DOMAIN conf : k[1] # k[2] /\ conf[k] >= 1

(* The number of blocks of a synchronization whose two texts differ *)
Mismatched(synclist) == {k \in DOMAIN synclist : synclist[k][1] # synclist[k][2]}

(* The sum of the counts of a confusion dictionary *)
RECURSIVE CountSum(_, _)
CountSum(conf, keys) ==
    IF keys = {} THEN 0
    ELSE LET k == CHOOSE x \in keys : TRUE IN conf[k] + CountSum(conf, keys \ {k})

(* C8: in every record, in the running confusion and in the dictionary      *)
(* returned, a key has two different texts and a count of at least 1; a     *)
(* record counts exactly its mismatched blocks, a matched block adds none.  *)
C8_OnlyMismatchesCounted ==
    /\ \A i \in DOMAIN out :
           Evaluated(i) =>
               /\ OnlyMismatches(out[i].conf)
               /\ Aligned(i) =>
                      CountSum(out[i].conf, DOMAIN out[i].conf)
                          = Cardinality(Mismatched(synchronize(gt_data[i], pred_data[i])))
    /\ OnlyMismatches(confusion)
    /\ result # NoResult => OnlyMismatches(result.confusion)

(* C8 witness: a pair with a matched and a mismatched block was counted *)
C8_Witness ==
    /\ pc = "done"
    /\ confusion # EmptyDict
    /\ \E i \in DOMAIN out :
           LET synclist == synchronize(gt_data[i], pred_data[i])
           IN  /\ Mismatched(synclist) # {}
               /\ Mismatched(synclist) # DOMAIN synclist

(* The texts of one side of the blocks, concatenated *)
RECURSIVE Concat(_, _, _)
Concat(synclist, side, k) ==
    IF k = 0 THEN <<>> ELSE Concat(synclist, side, k - 1) \o synclist[k][side]

(* C9: the blocks synchronize gives for a pair, concatenated in order, give *)
(* back the ground truth on one side and the prediction on the other.       *)
C9_BlocksReconstruct ==
    \A i \in DOMAIN out :
        Aligned(i) =>
            LET synclist == synchronize(gt_data[i], pred_data[i])
            IN  /\ Concat(synclist, 1, Len(synclist)) = gt_data[i]
                /\ Concat(synclist, 2, Len(synclist)) = pred_data[i]

(* C9 witness: a pair synchronized into three blocks or more *)
C9_Witness ==
    \E i \in DOMAIN out :
        /\ Aligned(i)
        /\ Len(synchronize(gt_data[i], pred_data[i])) >= 3
        /\ gt_data[i] # pred_data[i]

(* C10: a text aligned with itself has edit distance 0 and one matched      *)
(* block, the text (no block when it is empty); the record has              *)
(* char_errs = 0, sync_errs = 0 and an empty confusion.                     *)
C10_Identity ==
    \A i \in DOMAIN out :
        (Aligned(i) /\ gt_data[i] = pred_data[i]) =>
            /\ edit_distance(gt_data[i], pred_data[i]) = 0
            /\ synchronize(gt_data[i], pred_data[i])
                   = IF gt_data[i] = <<>> THEN <<>> ELSE << <<gt_data[i], gt_data[i]>> >>
            /\ out[i].char_errs = 0
            /\ out[i].sync_errs = 0
            /\ out[i].conf = EmptyDict

(* C10 witness: a text of two different characters was aligned with itself *)
C10_Witness ==
    \E i \in DOMAIN out :
        /\ Aligned(i)
        /\ gt_data[i] = pred_data[i]
        /\ Len(gt_data[i]) >= 2
        /\ gt_data[i][1] # gt_data[i][2]
        /\ out[i].chars = Len(gt_data[i])

(* Argument i is the pair (gt, pred) and a worker has aligned it *)
AlignedPair(i, gt, pred) ==
    i \in DOMAIN out /\ Evaluated(i) /\ Aligned(i) /\ gt_data[i] = gt /\ pred_data[i] = pred

(* C11, as stated: "cat" against "dog" gives char_errs = 3, sync_errs = 3   *)
(* and one confusion entry of count 1 for each of ("c","d"), ("a","o") and  *)
(* ("t","g").                                                               *)
C11_CharacterWise ==
    \A i \in DOMAIN out :
        AlignedPair(i, Cat, Dog) =>
            /\ out[i].char_errs = 3
            /\ out[i].sync_errs = 3
            /\ \A k \in {<< <<"c">>, <<"d">> >>, << <<"a">>, <<"o">> >>, << <<"t">>, <<"g">> >>} :
                   k \in DOMAIN out[i].conf /\ out[i].conf[k] = 1

(* C11, amended: "cat" against "dog" gives char_errs = 3, sync_errs = 3,    *)
(* the single block ("cat", "dog") and the confusion {("cat","dog"): 1}:    *)
(* substitutions not separated by a match are one entry.                    *)
C11_OneCollapsedEntry ==
    \A i \in DOMAIN out :
        AlignedPair(i, Cat, Dog) =>
            /\ out[i].char_errs = 3
            /\ out[i].sync_errs = 3
            /\ synchronize(Cat, Dog) = << <<Cat, Dog>> >>
            /\ DOMAIN out[i].conf = {<<Cat, Dog>>}
            /\ out[i].conf[<<Cat, Dog>>] = 1

(* C11 witness: "cat" against "dog" was evaluated *)
C11_Witness ==
    /\ AlignedPair(1, Cat, Dog)
    /\ out[1].chars = 3

(* C12, as stated: "hello" against "helo" gives char_errs = 1, the blocks   *)
(* ("h","h"), ("e","e"), ("l","l"), ("l",""), ("o","o"), the confusion      *)
(* {("l",""): 1} and sync_errs = 1.                                         *)
C12_CharacterBlocks ==
    \A i \in DOMAIN out :
        AlignedPair(i, Hello, Helo) =>
            /\ out[i].char_errs = 1
            /\ synchronize(Hello, Helo)
                   = << << <<"h">>, <<"h">> >>, << <<"e">>, <<"e">> >>, << <<"l">>, <<"l">> >>,
                        << <<"l">>, <<>> >>, << <<"o">>, <<"o">> >> >>
            /\ DOMAIN out[i].conf = {<< <<"l">>, <<>> >>}
            /\ out[i].conf[<< <<"l">>, <<>> >>] = 1
            /\ out[i].sync_errs = 1

(* C12, amended: "hello" against "helo" gives char_errs = 1, the blocks     *)
(* ("hel","hel"), ("l",""), ("o","o"), the confusion {("l",""): 1} and      *)
(* sync_errs = 1: the first 'l' is in the matched run, the second deleted.  *)
C12_MatchedRuns ==
    \A i \in DOMAIN out :
        AlignedPair(i, Hello, Helo) =>
            /\ out[i].char_errs = 1
            /\ synchronize(Hello, Helo)
                   = << << <<"h", "e", "l">>, <<"h", "e", "l">> >>,
                        << <<"l">>, <<>> >>, << <<"o">>, <<"o">> >> >>
            /\ DOMAIN out[i].conf = {<< <<"l">>, <<>> >>}
            /\ out[i].conf[<< <<"l">>, <<>> >>] = 1
            /\ out[i].sync_errs = 1

(* C12 witness: "hello" against "helo" was evaluated *)
C12_Witness ==
    /\ AlignedPair(1, Hello, Helo)
    /\ out[1].chars = 5

(* C13: the i-th entry of the 'single' list returned is the record of the   *)
(* i-th input pair, whatever the order the workers completed in; folded     *)
(* with store_all false, the same records give an empty 'single' list.      *)
C13_SingleInInputOrder ==
    /\ pc = "done" =>
           /\ Len(result.single) = Len(gt_data)
           /\ \A i \in 1..Len(gt_data) :
                  /\ result.single[i].gt_pred = <<gt_data[i], pred_data[i]>>
                  /\ result.single[i]
                         = evaluate_single(gt_data[i], pred_data[i], skip_empty_gt).ret
    /\ (Folded /\ total_chars # 0) => evaluate_single_list(out, FALSE).single = <<>>

(* C13 witness: two different pairs completed out of order and both were retained *)
C13_Witness ==
    /\ pc = "done"
    /\ finished = <<2, 1>>
    /\ Len(result.single) = 2
    /\ result.single[1].gt_pred # result.single[2].gt_pred

(* The evaluation of argument i raises *)
Raises(i) ==
    "raised" \in DOMAIN evaluate_single(TheArgs[i].gt, TheArgs[i].pred, TheArgs[i].skip_empty_gt)

(* C14: the fold starts only when every argument has been handed out and    *)
(* evaluated; when one evaluation raises, the run ends raising that error,  *)
(* nothing is folded and no dictionary is returned; a run that returns had  *)
(* no pair that raises; no argument is handed to a worker twice.            *)
C14_AllOrNothing ==
    /\ fold_i >= 1 =>
           /\ failed = {}
           /\ running = {}
           /\ next_task > NumTasks
           /\ \A i \in 1..NumTasks : Evaluated(i) /\ attempts[i] = 1
    /\ failed # {} =>
           /\ pc = "raised"
           /\ error = "TypeError"
           /\ result = NoResult
           /\ fold_i = 0
           /\ total_instances = 0
           /\ all_eval = <<>>
           /\ running = {}
    /\ pc = "done" => \A i \in DOMAIN TheArgs : ~Raises(i)
    /\ \A i \in DOMAIN attempts : attempts[i] <= 1

(* C14 witness: one pair had been evaluated when the evaluation of another raised *)
C14_Witness ==
    /\ failed # {}
    /\ pc = "raised"
    /\ Len(finished) = 1
    /\ Evaluated(finished[1])
    /\ out[finished[1]].chars > 0

(* The pairs of texts explored: all texts up to MaxLen, and the examples *)
PairsExplored ==
    (Texts(MaxLen) \X Texts(MaxLen)) \cup {<<Cat, Dog>>, <<Hello, Helo>>, <<InEwych, IergCh>>}

(* C15, as stated: among the pairs explored and those of the run there is  *)
(* a pair whose sync_errs is strictly higher than its char_errs and a pair  *)
(* whose sync_errs is strictly lower.                                       *)
C15_HigherAndLower ==
    LET pairs == PairsExplored \cup
                     {<<gt_data[i], pred_data[i]>> : i \in {j \in DOMAIN TheArgs : ~Raises(j)}}
    IN  /\ \E p \in pairs :
               LET r == evaluate_single(p[1], p[2], FALSE).ret IN r.sync_errs > r.char_errs
        /\ \E p \in pairs :
               LET r == evaluate_single(p[1], p[2], FALSE).ret IN r.sync_errs < r.char_errs

(* C15, amended: the sync_errs of a record is never lower than its          *)
(* char_errs, and it can be strictly higher: "in ewych" against "ierg ch"   *)
(* has edit distance 5 and 6 sync errors.                                   *)
C15_SyncAtLeastEdit ==
    \A i \in DOMAIN out :
        (Evaluated(i) /\ Aligned(i)) =>
            /\ out[i].sync_errs >= out[i].char_errs
            /\ AlignedPair(i, InEwych, IergCh) =>
                   (out[i].char_errs = 5 /\ out[i].sync_errs = 6)

(* C15 witness: "in ewych" against "ierg ch" was evaluated, with more sync  *)
(* errors than character errors.                                            *)
C15_Witness ==
    /\ AlignedPair(1, InEwych, IergCh)
    /\ out[1].sync_errs > out[1].char_errs

(* The pairs of the corpus skipped for their empty ground truth *)
SkippedPairs == {i \in DOMAIN TheArgs : ~Raises(i) /\ Len(gt_data[i]) = 0 /\ skip_empty_gt}

(* The sum of len(gt) over the pairs before position k that were not skipped *)
RECURSIVE GtCharsBefore(_)
GtCharsBefore(k) ==
    IF k <= 1 THEN 0
    ELSE GtCharsBefore(k - 1)
             + (IF (k - 1) \in SkippedPairs THEN 0 ELSE Len(gt_data[k - 1]))

(* The corpus [("ab","ab"), ("","x")] *)
AbAndEmpty ==
    /\ gt_data = <<<<"a", "b">>, <<>>>>
    /\ pred_data = <<<<"a", "b">>, <<"x">>>>

(* C16: a dictionary returned by Evaluator.evaluate has total_instances     *)
(* equal to the number of input pairs, skipped pairs included, and          *)
(* total_chars equal to the sum of len(gt) over the pairs not skipped; the  *)
(* corpus [("ab","ab"), ("","x")] with skip_empty_gt gives 2 instances,     *)
(* 2 characters, no character error, no sync error and avg_ler 0.           *)
C16_InstancesAndChars ==
    pc = "done" =>
        /\ result.total_instances = Len(gt_data)
        /\ result.total_instances = Len(pred_data)
        /\ result.total_chars = GtCharsBefore(Len(gt_data) + 1)
        /\ Len(result.single) = result.total_instances
        /\ (AbAndEmpty /\ skip_empty_gt) =>
               /\ result.total_instances = 2
               /\ result.total_chars = 2
               /\ result.total_char_errs = 0
               /\ result.total_sync_errs = 0
               /\ result.avg_ler = <<0, 2>>
               /\ result.confusion = EmptyDict

(* C16 witness: the corpus [("ab","ab"), ("","x")] was evaluated with       *)
(* skip_empty_gt, its second pair skipped and still counted as an instance. *)
C16_Witness ==
    /\ pc = "done"
    /\ AbAndEmpty
    /\ skip_empty_gt
    /\ SkippedPairs = {2}
    /\ result.total_instances = 2

(* The sum over the keys of a confusion of count * max(len(gt), len(pred)) *)
RECURSIVE WeightSum(_, _)
WeightSum(conf, keys) ==
    IF keys = {} THEN 0
    ELSE LET k == CHOOSE x \in keys : TRUE
         IN  PercentNumerator(k, conf[k]) + WeightSum(conf, keys \ {k})

(* sync_errs is the sum of the numerators: in every record, in the running *)
(* totals and in the dictionary returned.                                   *)
SyncErrsIsWeightSum ==
    /\ \A i \in DOMAIN out :
           Evaluated(i) => out[i].sync_errs = WeightSum(out[i].conf, DOMAIN out[i].conf)
    /\ total_sync_errs = WeightSum(confusion, DOMAIN confusion)
    /\ result # NoResult =>
           result.total_sync_errs = WeightSum(result.confusion, DOMAIN result.confusion)

(* main printed every row of the table of confusions *)
WholeTablePrinted ==
    /\ pc = "printed"
    /\ total_percent # NoResult
    /\ printed = Cardinality(DOMAIN result.confusion)

(* The floats next to 1.0: 1 - 2^-53 and 1 + 2^-52 *)
FloatBelowOne == [e |-> -1, m |-> [k \in SignificandBits |-> 1]]
FloatAboveOne ==
    [e |-> 0, m |-> [k \in SignificandBits |-> IF k \in {1, Cardinality(SignificandBits)} THEN 1 ELSE 0]]

(* The corpus [("aaa","bbb"), ("aa","bb"), ("a","b")] *)
ThreeReplacements ==
    /\ gt_data = <<<<"a", "a", "a">>, <<"a", "a">>, <<"a">>>>
    /\ pred_data = <<<<"b", "b", "b">>, <<"b", "b">>, <<"b">>>>

===========================================================================
